---------------------------- MODULE Spec2Model ----------------------------
(***************************************************************************)
(* Model of the binance-crypto-daily scripts:                              *)
(*   src/main-futures.py, src/main_futures.py, src/main_spot.py            *)
(*                                                                         *)
(* Floats are modelled in fixed point as tagged values:                    *)
(*   <<"num", v>>  a finite number, v an integer in the unit of the field  *)
(*   <<"nan", 0>>  float NaN                                               *)
(*   <<"none", 0>> Python None                                             *)
(* Units: prices, EMAs and ATR in tenths; RSI and ADX in points; MACD in   *)
(* tenths; volume in lots; CMF in hundredths; funding rate in thousandths; *)
(* open-interest change in percent; percentages (stop_pct, tp_pct) in      *)
(* 1/10000 of a percent, so that their quotient is right to the thousandth; *)
(* risk/reward in thousandths.  Every arithmetic operation rounds its       *)
(* result to the unit of the field, as every float operation rounds its    *)
(* result to a double: an ATR of one unit is an ATR at the resolution of   *)
(* the price.                                                              *)
(* A snapshot (df.iloc[-1]) is a function from column names to values; a   *)
(* column the DataFrame does not have is a name outside its DOMAIN.        *)
(***************************************************************************)
EXTENDS Integers, Sequences, FiniteSets, TLC

VARIABLES
    script,        \* the script that runs
    pc,            \* control position
    df,            \* the candle DataFrame at hand (or NoDf)
    last,          \* df.iloc[-1] after compute_indicators (or NoRow)
    funding_rate,  \* get_funding_rate's result
    oi_change,     \* get_open_interest_change's result
    side,          \* signal / side passed to the level and score functions
    ret,           \* what the function applied last returned or raised
    cfg,           \* main_spot.py's environment: ONLY_SIGNAL, SIDE_FILTER, MIN_RR
    attempt,       \* number of the current attempt of a retry loop
    waits,         \* the sleeps of the retry loop under way, in tenths of a second
    symbols,       \* main: the symbol list
    idx,           \* main: position of the for loop in symbols (1-based)
    rows,          \* main: rows
    rows_sorted,   \* main: rows_sorted, the rows of the report
    status,        \* how main ended: "running", "ok", or "crash" (uncaught exception)
    calls,         \* the calls of the last loop iteration, in order
    alone,         \* history: per processed symbol, the rows it yields on its own
    excepted,      \* history: the symbols whose iteration ended in the except clause
    market,        \* history: what the supplier answered for the symbol processed last
    all_failed     \* history: no request to the supplier has succeeded so far

fnvars == <<df, last, funding_rate, oi_change, side, ret>>
mainvars == <<cfg, attempt, waits, symbols, idx, rows, rows_sorted, status,
              calls, alone, excepted, market, all_failed>>
vars == <<script, pc, fnvars, mainvars>>

-----------------------------------------------------------------------------
(* Values *)

Num(v) == <<"num", v>>
NaN == <<"nan", 0>>
None == <<"none", 0>>

IsNum(x) == x[1] = "num"
Val(x) == x[2]

\* pd.isna(x): True for NaN and for None
isna(x) == x[1] # "num"

\* a > b on floats: False as soon as one side is NaN
Gt(a, b) == IsNum(a) /\ IsNum(b) /\ Val(a) > Val(b)
Ge(a, b) == IsNum(a) /\ IsNum(b) /\ Val(a) >= Val(b)
Lt(a, b) == Gt(b, a)

\* a > b * (num/den), for a float literal num/den such as 0.995
GtMul(a, b, num, den) == IsNum(a) /\ IsNum(b) /\ Val(a) * den > Val(b) * num
LtMul(a, b, num, den) == IsNum(a) /\ IsNum(b) /\ Val(a) * den < Val(b) * num

\* Python's  x or d : d when x is falsy (None, 0.0); NaN is truthy
PyOr(x, d) == IF x = None \/ x = Num(0) THEN Num(d) ELSE x

Scripts == {"main-futures.py", "main_futures.py", "main_spot.py"}
Futures == {"main-futures.py", "main_futures.py"}

\* Series.get(k): None when the column is missing
Get(row, k) == IF k \in DOMAIN row THEN row[k] ELSE None

NoDf == [len |-> 0]
NoRow == [none |-> None]
NoRet == [fn |-> "none"]
NoMarket == [klines |-> [kind |-> "none", df |-> NoDf]]

-----------------------------------------------------------------------------
(* Python's  c1 and c2 and ... : conjuncts are evaluated left to right and   *)
(* evaluation stops at the first false one; a conjunct that indexes a       *)
(* missing column with row[k] raises KeyError.                              *)

RECURSIVE PyAnd(_, _)
PyAnd(row, cs) ==
    IF cs = <<>> THEN "True"
    ELSE IF ~(Head(cs).keys \subseteq DOMAIN row) THEN "KeyError"
    ELSE IF ~Head(cs).holds THEN "False"
    ELSE PyAnd(row, Tail(cs))

\* any(pd.isna(row[c]) for c in cs) when strict, any(pd.isna(row.get(c)) ...)
\* otherwise: the generator stops at the first NaN; row[c] raises KeyError on
\* a missing column, row.get(c) gives None, which pd.isna takes for missing.
RECURSIVE AnyIsna(_, _, _)
AnyIsna(row, cs, strict) ==
    IF cs = <<>> THEN "False"
    ELSE IF Head(cs) \notin DOMAIN row
         THEN (IF strict THEN "KeyError" ELSE "True")
    ELSE IF isna(row[Head(cs)]) THEN "True"
    ELSE AnyIsna(row, Tail(cs), strict)

-----------------------------------------------------------------------------
(* Futures scripts: evaluate_signal *)

needed == <<"ema9", "ema21", "ema50", "rsi", "adx", "macd_line",
            "macd_signal", "vol_sma20", "atr14">>

long_conds(row, fr, oi) == <<
    [keys |-> {"ema9", "ema21"}, holds |-> Gt(Get(row, "ema9"), Get(row, "ema21"))],
    [keys |-> {"ema50"}, holds |-> Gt(Get(row, "ema21"), Get(row, "ema50"))],
    [keys |-> {"rsi"}, holds |-> Lt(Num(45), Get(row, "rsi")) /\ Lt(Get(row, "rsi"), Num(65))],
    [keys |-> {"adx"}, holds |-> Gt(Get(row, "adx"), Num(25))],
    [keys |-> {"macd_line", "macd_signal"},
     holds |-> Gt(Get(row, "macd_line"), Get(row, "macd_signal"))],
    [keys |-> {}, holds |-> Lt(Num(0), fr) /\ Lt(fr, Num(20))],
    [keys |-> {}, holds |-> Gt(oi, Num(0))],
    [keys |-> {"volume", "vol_sma20"},
     holds |-> Gt(Get(row, "volume"), PyOr(Get(row, "vol_sma20"), 0))] >>

short_conds_copied(row, fr, oi) == <<
    [keys |-> {"ema9", "ema21"}, holds |-> Gt(Get(row, "ema9"), Get(row, "ema21"))],
    [keys |-> {"ema50"}, holds |-> Gt(Get(row, "ema21"), Get(row, "ema50"))],
    [keys |-> {"rsi"}, holds |-> Lt(Num(35), Get(row, "rsi")) /\ Lt(Get(row, "rsi"), Num(55))],
    [keys |-> {"adx"}, holds |-> Gt(Get(row, "adx"), Num(25))],
    [keys |-> {"macd_line", "macd_signal"},
     holds |-> Gt(Get(row, "macd_line"), Get(row, "macd_signal"))],
    [keys |-> {}, holds |-> Lt(Num(0), fr) /\ Lt(fr, Num(20))],
    [keys |-> {}, holds |-> Gt(oi, Num(0))],
    [keys |-> {"volume", "vol_sma20"},
     holds |-> Gt(Get(row, "volume"), PyOr(Get(row, "vol_sma20"), 0))] >>

short_conds(row, fr, oi) == <<
    [keys |-> {"ema9", "ema21"}, holds |-> Lt(Get(row, "ema9"), Get(row, "ema21"))],
    [keys |-> {"ema50"}, holds |-> Lt(Get(row, "ema21"), Get(row, "ema50"))],
    [keys |-> {"rsi"}, holds |-> Lt(Num(35), Get(row, "rsi")) /\ Lt(Get(row, "rsi"), Num(55))],
    [keys |-> {"adx"}, holds |-> Gt(Get(row, "adx"), Num(25))],
    [keys |-> {"macd_line", "macd_signal"},
     holds |-> Lt(Get(row, "macd_line"), Get(row, "macd_signal"))],
    [keys |-> {}, holds |-> Lt(Num(0 - 20), fr) /\ Lt(fr, Num(0))],
    [keys |-> {}, holds |-> Gt(oi, Num(0))],
    [keys |-> {"volume", "vol_sma20"},
     holds |-> Gt(Get(row, "volume"), PyOr(Get(row, "vol_sma20"), 0))] >>

\* evaluate_signal of script s: the locals long_cond and short_cond ("unset"
\* when the function left before computing them) and what it returned, or
\* "KeyError" when it raised.
evaluate_signal(s, last_row, fr, oi) ==
    LET na == AnyIsna(last_row, needed, s = "main-futures.py")
        l == PyAnd(last_row, long_conds(last_row, fr, oi))
        sh == PyAnd(last_row, short_conds(last_row, fr, oi))
        out(sig, lc, sc) == [fn |-> "evaluate_signal", signal |-> sig,
                             long_cond |-> lc, short_cond |-> sc]
    IN  IF na = "KeyError" THEN out("KeyError", "unset", "unset")
        ELSE IF na = "True" THEN out("-", "unset", "unset")
        ELSE IF fr = None \/ oi = None THEN out("-", "unset", "unset")
        ELSE IF l = "KeyError" THEN out("KeyError", "unset", "unset")
        ELSE IF sh = "KeyError" THEN out("KeyError", l, "unset")
        ELSE IF l = "True" THEN out("LONG", l, sh)
        ELSE IF sh = "True" THEN out("SHORT", l, sh)
        ELSE out("-", l, sh)

-----------------------------------------------------------------------------
(* main_spot.py: long_condition / short_condition *)

MIN_ADX == 15

req == <<"ema9", "ema21", "ema50", "rsi", "adx", "macd_line",
         "macd_signal", "vol_sma20", "cmf">>

\* volume > 0.8 * (vol_sma20 or 1)
VolumeOk(row) ==
    GtMul(Get(row, "volume"), PyOr(Get(row, "vol_sma20"), 1), 8, 10)

long_condition(row) ==
    IF AnyIsna(row, req, FALSE) = "True" THEN "False"
    ELSE PyAnd(row, <<
        [keys |-> {"ema9", "ema21"},
         holds |-> GtMul(Get(row, "ema9"), Get(row, "ema21"), 995, 1000)],
        [keys |-> {"ema21", "ema50"},
         holds |-> GtMul(Get(row, "ema21"), Get(row, "ema50"), 995, 1000)],
        [keys |-> {"rsi"}, holds |-> Lt(Num(42), Get(row, "rsi")) /\ Lt(Get(row, "rsi"), Num(68))],
        [keys |-> {"adx"}, holds |-> Ge(Get(row, "adx"), Num(MIN_ADX))],
        [keys |-> {"macd_line", "macd_signal"},
         holds |-> Gt(Get(row, "macd_line"), Get(row, "macd_signal"))],
        [keys |-> {"volume", "vol_sma20"}, holds |-> VolumeOk(row)],
        [keys |-> {"cmf"}, holds |-> Gt(Get(row, "cmf"), Num(0 - 10))] >>)

short_condition(row) ==
    IF AnyIsna(row, req, FALSE) = "True" THEN "False"
    ELSE PyAnd(row, <<
        [keys |-> {"ema9", "ema21"},
         holds |-> LtMul(Get(row, "ema9"), Get(row, "ema21"), 1005, 1000)],
        [keys |-> {"ema21", "ema50"},
         holds |-> LtMul(Get(row, "ema21"), Get(row, "ema50"), 1005, 1000)],
        [keys |-> {"rsi"}, holds |-> Lt(Num(32), Get(row, "rsi")) /\ Lt(Get(row, "rsi"), Num(58))],
        [keys |-> {"adx"}, holds |-> Ge(Get(row, "adx"), Num(MIN_ADX))],
        [keys |-> {"macd_line", "macd_signal"},
         holds |-> Lt(Get(row, "macd_line"), Get(row, "macd_signal"))],
        [keys |-> {"volume", "vol_sma20"}, holds |-> VolumeOk(row)],
        [keys |-> {"cmf"}, holds |-> Lt(Get(row, "cmf"), Num(10))] >>)

-----------------------------------------------------------------------------
(* Float arithmetic in fixed point; NaN propagates *)

Add(a, b) == IF IsNum(a) /\ IsNum(b) THEN Num(Val(a) + Val(b)) ELSE NaN
Sub(a, b) == IF IsNum(a) /\ IsNum(b) THEN Num(Val(a) - Val(b)) ELSE NaN
\* x * (num/den) for a float literal num/den
Times(x, num, den) == IF IsNum(x) THEN Num((Val(x) * num) \div den) ELSE NaN
\* a / b * scale, b # 0
Ratio(a, b, scale) ==
    IF IsNum(a) /\ IsNum(b) THEN Num((Val(a) * scale) \div Val(b)) ELSE NaN

-----------------------------------------------------------------------------
(* Futures scripts: calc_entry_stop_target (the same in both) *)

calc_entry_stop_target_same_sign(signal, last_price, atr14) ==
    IF isna(atr14) \/ Val(atr14) <= 0 THEN <<last_price, None, None>>
    ELSE IF signal \in {"LONG", "SHORT"}
    THEN <<last_price, Sub(last_price, Times(atr14, 15, 10)),
           Add(last_price, Times(atr14, 20, 10))>>
    ELSE <<last_price, None, None>>

calc_entry_stop_target(signal, last_price, atr14) ==
    IF isna(atr14) \/ Val(atr14) <= 0 THEN <<last_price, None, None>>
    ELSE IF signal = "LONG"
    THEN <<last_price, Sub(last_price, Times(atr14, 15, 10)),
           Add(last_price, Times(atr14, 20, 10))>>
    ELSE IF signal = "SHORT"
    THEN <<last_price, Add(last_price, Times(atr14, 15, 10)),
           Sub(last_price, Times(atr14, 20, 10))>>
    ELSE <<last_price, None, None>>

-----------------------------------------------------------------------------
(* main_spot.py: calc_levels.  ATR_STOP_MULT and ATR_TP_MULT in tenths.     *)

ATR_STOP_MULT == 15
ATR_TP_MULT == 25

\* as levels_from_atr, but rr is computed for every non-zero stop_pct
levels_from_atr_any_sign(entry, atr, sd) ==
    LET stop == IF sd = "LONG" THEN Sub(entry, Times(atr, ATR_STOP_MULT, 10))
                ELSE Add(entry, Times(atr, ATR_STOP_MULT, 10))
        tp == IF sd = "LONG" THEN Add(entry, Times(atr, ATR_TP_MULT, 10))
              ELSE Sub(entry, Times(atr, ATR_TP_MULT, 10))
        stop_pct == IF sd = "LONG" THEN Ratio(Sub(entry, stop), entry, 1000000)
                    ELSE Ratio(Sub(stop, entry), entry, 1000000)
        tp_pct == IF sd = "LONG" THEN Ratio(Sub(tp, entry), entry, 1000000)
                  ELSE Ratio(Sub(entry, tp), entry, 1000000)
        rr == IF IsNum(stop_pct) /\ Val(stop_pct) # 0
              THEN Ratio(tp_pct, stop_pct, 1000) ELSE None
    IN  IF entry = Num(0) THEN [exc |-> "ZeroDivisionError", val |-> <<>>]
        ELSE [exc |-> "none", val |-> <<entry, stop, tp, stop_pct, tp_pct, rr>>]

\* the levels once the ATR guard is passed; entry / 0.0 raises
levels_from_atr(entry, atr, sd) ==
    LET stop == IF sd = "LONG" THEN Sub(entry, Times(atr, ATR_STOP_MULT, 10))
                ELSE Add(entry, Times(atr, ATR_STOP_MULT, 10))
        tp == IF sd = "LONG" THEN Add(entry, Times(atr, ATR_TP_MULT, 10))
              ELSE Sub(entry, Times(atr, ATR_TP_MULT, 10))
        stop_pct == IF sd = "LONG" THEN Ratio(Sub(entry, stop), entry, 1000000)
                    ELSE Ratio(Sub(stop, entry), entry, 1000000)
        tp_pct == IF sd = "LONG" THEN Ratio(Sub(tp, entry), entry, 1000000)
                  ELSE Ratio(Sub(entry, tp), entry, 1000000)
        \* rr = (tp_pct / stop_pct) if stop_pct and stop_pct > 0 else None
        rr == IF Gt(stop_pct, Num(0)) THEN Ratio(tp_pct, stop_pct, 1000) ELSE None
    IN  IF entry = Num(0) THEN [exc |-> "ZeroDivisionError", val |-> <<>>]
        ELSE [exc |-> "none", val |-> <<entry, stop, tp, stop_pct, tp_pct, rr>>]

calc_levels_strict_guard(row, sd) ==
    LET entry == row["close"]
        atr == IF ~isna(row["atr14"]) THEN row["atr14"] ELSE None
    IN  IF atr = None \/ Val(atr) < 0
        THEN [exc |-> "none", val |-> <<entry, None, None, None, None, None>>]
        ELSE levels_from_atr(entry, atr, sd)

calc_levels(row, sd) ==
    LET entry == row["close"]
        atr == IF ~isna(row["atr14"]) THEN row["atr14"] ELSE None
    IN  IF atr = None \/ Val(atr) <= 0
        THEN [exc |-> "none", val |-> <<entry, None, None, None, None, None>>]
        ELSE levels_from_atr(entry, atr, sd)

-----------------------------------------------------------------------------
(* main_spot.py: compute_score_and_badges.  The checks in the order the     *)
(* code evaluates them, each with the points it adds and the list (strong   *)
(* or moderate) its badge is appended to.  bb_width in hundredths, atr_pct  *)
(* in hundredths of a percent.                                              *)

score_checks(row, sd) ==
    LET chk(h, p, t, n) == [hit |-> h, pts |-> p, tier |-> t, name |-> n]
        spike == GtMul(row["volume"], PyOr(row["vol_sma20"], 1), 13, 10)
        squeeze == Lt(row["bb_width"], Num(6)) /\ Lt(row["atr_pct"], Num(300))
    IN  IF sd = "LONG"
        THEN << chk(Gt(row["ema50"], row["ema200"]), 3, "strong", "Golden Cross"),
                chk(Gt(row["obv_slope"], Num(0)), 2, "strong", "OBV up"),
                chk(squeeze, 2, "strong", "Squeeze (BB+ATR)"),
                chk(Gt(row["macd_line"], row["macd_signal"]), 1, "moderate", "MACD Up"),
                chk(Lt(Num(45), row["rsi"]) /\ Lt(row["rsi"], Num(60)), 1, "moderate", "RSI Zone"),
                chk(Gt(row["cmf"], Num(0)), 1, "moderate", "CMF+"),
                chk(spike, 1, "moderate", "Volume Spike") >>
        ELSE << chk(Lt(row["ema50"], row["ema200"]), 3, "strong", "Death Cross"),
                chk(Lt(row["obv_slope"], Num(0)), 2, "strong", "OBV down"),
                chk(squeeze, 2, "strong", "Squeeze (BB+ATR)"),
                chk(sd = "SHORT" /\ Lt(row["macd_line"], row["macd_signal"]), 1, "moderate", "MACD Down"),
                chk(sd = "SHORT" /\ Lt(Num(40), row["rsi"]) /\ Lt(row["rsi"], Num(55)), 1, "moderate", "RSI Zone"),
                chk(sd = "SHORT" /\ Lt(row["cmf"], Num(0)), 1, "moderate", "CMF-"),
                chk(spike, 1, "moderate", "Volume Spike") >>

\* score after the checks cs
RECURSIVE score_of_strong_only(_)
score_of_strong_only(cs) ==
    IF cs = <<>> THEN 0
    ELSE (IF Head(cs).hit /\ Head(cs).tier = "strong" THEN Head(cs).pts ELSE 0)
         + score_of_strong_only(Tail(cs))

RECURSIVE score_of(_)
score_of(cs) ==
    IF cs = <<>> THEN 0
    ELSE (IF Head(cs).hit THEN Head(cs).pts ELSE 0) + score_of(Tail(cs))

\* the list (strong or moderate) after the checks cs, in append order
RECURSIVE badge_list(_, _)
badge_list(cs, tier) ==
    IF cs = <<>> THEN <<>>
    ELSE (IF Head(cs).hit /\ Head(cs).tier = tier
          THEN << <<tier, Head(cs).name>> >> ELSE <<>>)
         \o badge_list(Tail(cs), tier)

\* badges is the join of the strong badges (each prefixed as strong) and then
\* the moderate ones (each prefixed as moderate); an empty part is left out.
\* The joined string is modelled as the sequence of its <<prefix, name>> items.
compute_score_and_badges(row, sd) ==
    LET cs == score_checks(row, sd)
    IN  [score |-> score_of(cs),
         badges |-> badge_list(cs, "strong") \o badge_list(cs, "moderate")]

-----------------------------------------------------------------------------
(* compute_indicators.  A DataFrame is [len, cols, ta]: its number of rows,  *)
(* the columns of its last row, and the values the ta library computes for   *)
(* the last bar of this series (the indicator formulas are library code).    *)

compute_indicators(s, d) ==
    IF s \in Futures /\ d.len < 60 THEN d
    ELSE [d EXCEPT !.cols = d.ta @@ d.cols]

\* df.iloc[-1]
iloc_last(d) == IF d.len = 0 THEN [exc |-> "IndexError"] ELSE d.cols

-----------------------------------------------------------------------------
(* Inputs of the classifier specification *)

Ema9Vals == {1000, 1008, 1020}
Ema50Vals == {1000, 1012, 1020}
RsiVals == {40, 50, 60}
AdxVals == {10, 20, 30}
MacdVals == {0 - 1, 0, 1}
VolumeVals == {9, 20}
VolSmaVals == {0, 10}
CmfVals == {0 - 20, 0, 20}
FundingVals == {None, Num(0 - 10), Num(10), Num(30)}
OiVals == {None, Num(0 - 5), Num(5)}
ShortLens == {1, 59}

RawCols(v) == [close |-> Num(1000), volume |-> Num(v)]

TaFutures(e9, e50, r, a, m, vs) ==
    [ema9 |-> Num(e9), ema21 |-> Num(1010), ema50 |-> Num(e50),
     rsi |-> Num(r), adx |-> Num(a), macd_line |-> Num(m),
     macd_signal |-> Num(0), macd_hist |-> Num(m),
     vol_sma20 |-> Num(vs), atr14 |-> Num(20)]

TaSpot(e9, e50, r, a, m, vs, c) ==
    TaFutures(e9, e50, r, a, m, vs) @@
    [ema200 |-> Num(1000), sma20 |-> Num(1000), atr_pct |-> Num(200),
     cmf |-> Num(c), bb_high |-> Num(1040), bb_low |-> Num(960),
     bb_width |-> Num(8), obv |-> Num(100), obv_slope |-> Num(5)]

\* every field numeric, 120 bars
NumericDfsFutures ==
    {[len |-> 120, cols |-> RawCols(v), ta |-> TaFutures(e9, e50, r, a, m, vs)] :
        e9 \in Ema9Vals, e50 \in Ema50Vals, r \in RsiVals, a \in AdxVals,
        m \in MacdVals, v \in VolumeVals, vs \in VolSmaVals}

NumericDfsSpot ==
    {[len |-> 120, cols |-> RawCols(v), ta |-> TaSpot(e9, e50, r, a, m, vs, c)] :
        e9 \in Ema9Vals, e50 \in Ema50Vals, r \in RsiVals, a \in AdxVals,
        m \in MacdVals, v \in VolumeVals, vs \in VolSmaVals, c \in CmfVals}

\* the series whose ADX and volume pass every script's test
StrongDfsFutures ==
    {[len |-> 120, cols |-> RawCols(20), ta |-> TaFutures(e9, e50, r, 30, m, 10)] :
        e9 \in Ema9Vals, e50 \in Ema50Vals, r \in RsiVals, m \in MacdVals}

StrongDfsSpot ==
    {[len |-> 120, cols |-> RawCols(20), ta |-> TaSpot(e9, e50, r, 30, m, 10, c)] :
        e9 \in Ema9Vals, e50 \in Ema50Vals, r \in RsiVals, m \in MacdVals,
        c \in CmfVals}

NumericDfs(s) == IF s \in Futures THEN NumericDfsFutures ELSE NumericDfsSpot
StrongDfs(s) == IF s \in Futures THEN StrongDfsFutures ELSE StrongDfsSpot

\* the columns a classifier reads
ReadCols(s) ==
    IF s \in Futures THEN {needed[i] : i \in 1..Len(needed)} \cup {"volume"}
    ELSE {req[i] : i \in 1..Len(req)} \cup {"volume"}

\* d with column c NaN at the last bar
WithNaN(d, c) ==
    IF c \in DOMAIN d.cols THEN [d EXCEPT !.cols[c] = NaN]
    ELSE [d EXCEPT !.ta[c] = NaN]

Without(row, c) == [k \in (DOMAIN row) \ {c} |-> row[k]]

\* series with one column NaN at the last bar, and series under 60 bars
DamagedDfs(s) ==
    {WithNaN(d, c) : d \in StrongDfs(s), c \in ReadCols(s)}
      \cup {[d EXCEPT !.len = n] : d \in {x \in StrongDfs(s) : x.ta.rsi = Num(50)},
                                   n \in ShortLens}

\* rows handed to the classifier directly: one column missing
DirectRows(s) ==
    {Without(iloc_last(compute_indicators(s, d)), c) :
        d \in StrongDfs(s), c \in ReadCols(s)}

\* the configuration main_spot.py runs with when the environment sets nothing
DefaultCfg == [ONLY_SIGNAL |-> TRUE, SIDE_FILTER |-> "ALL", MIN_RR |-> 1200]

\* main is not running
MainIdle ==
    /\ cfg = DefaultCfg
    /\ attempt = 0
    /\ waits = <<>>
    /\ symbols = <<>>
    /\ idx = 0
    /\ rows = <<>>
    /\ rows_sorted = <<>>
    /\ status = "running"
    /\ calls = <<>>
    /\ alone = <<>>
    /\ excepted = {}
    /\ market = NoMarket
    /\ all_failed = TRUE

InBandFunding == {Num(0 - 10), Num(10)}

InitClassify ==
    /\ MainIdle
    /\ side = "-"
    /\ ret = NoRet
    /\ \/ /\ script \in Futures
          /\ pc = "klines"
          /\ df \in NumericDfsFutures
          /\ last = NoRow
          /\ funding_rate \in FundingVals
          /\ oi_change \in OiVals
       \/ /\ script \in Futures
          /\ funding_rate \in InBandFunding
          /\ oi_change = Num(5)
          /\ \/ pc = "klines" /\ df \in DamagedDfs(script) /\ last = NoRow
             \/ pc = "row" /\ df = NoDf /\ last \in DirectRows(script)
       \/ /\ script = "main_spot.py"
          /\ funding_rate = None
          /\ oi_change = None
          /\ \/ pc = "klines" /\ df \in NumericDfsSpot \cup DamagedDfs(script)
                /\ last = NoRow
             \/ pc = "row" /\ df = NoDf /\ last \in DirectRows(script)

\* df = compute_indicators(df); last = df.iloc[-1]
ComputeIndicators ==
    /\ pc = "klines"
    /\ df' = compute_indicators(script, df)
    /\ last' = iloc_last(df')
    /\ pc' = "row"
    /\ UNCHANGED <<script, funding_rate, oi_change, side, ret, mainvars>>

\* signal = evaluate_signal(last, funding_rate, oi_change)
EvaluateSignal ==
    /\ pc = "row"
    /\ script \in Futures
    /\ ret' = evaluate_signal(script, last, funding_rate, oi_change)
    /\ pc' = "done"
    /\ UNCHANGED <<script, df, last, funding_rate, oi_change, side, mainvars>>

\* is_long = long_condition(last); is_short = short_condition(last)
\* (a KeyError out of long_condition leaves is_short unset)
LongShortCondition ==
    /\ pc = "row"
    /\ script = "main_spot.py"
    /\ ret' = LET l == long_condition(last)
                  sh == short_condition(last)
              IN [fn |-> "long_short", is_long |-> l,
                  is_short |-> IF l = "KeyError" THEN "unset" ELSE sh]
    /\ pc' = "done"
    /\ UNCHANGED <<script, df, last, funding_rate, oi_change, side, mainvars>>

\* The snapshots next to a LONG one: one input of one LONG predicate is moved
\* to the nearest value (at the resolution of the field) at which that
\* predicate is false, everything else kept.  ema21 enters two predicates,
\* so the EMA predicates are failed through ema9 and ema50.
Snapshot(row, fr, oi) == [row |-> row, fr |-> fr, oi |-> oi]

JustFailed(s, row, fr, oi) ==
    LET e21 == Val(row["ema21"])
        sig == row["macd_signal"]
        with(c, v) == Snapshot([row EXCEPT ![c] = Num(v)], fr, oi)
    IN  IF s \in Futures
        THEN {with("ema9", e21), with("ema50", e21),
              with("rsi", 45), with("rsi", 65), with("adx", 25),
              with("macd_line", Val(sig)), with("macd_line", Val(sig) - 1),
              Snapshot(row, Num(0), oi), Snapshot(row, Num(20), oi),
              Snapshot(row, fr, Num(0)),
              with("volume", Val(PyOr(row["vol_sma20"], 0)))}
        ELSE {with("ema9", (e21 * 995) \div 1000),
              with("ema50", (e21 * 1000 + 994) \div 995),
              with("rsi", 42), with("rsi", 68), with("adx", MIN_ADX - 1),
              with("macd_line", Val(sig)), with("macd_line", Val(sig) - 1),
              with("volume", (Val(PyOr(row["vol_sma20"], 1)) * 8) \div 10),
              with("cmf", 0 - 10)}

ClassifiedLong ==
    /\ pc = "done"
    /\ IF script \in Futures THEN ret.signal = "LONG" ELSE ret.is_long = "True"

\* a LONG snapshot is replaced by one of its just-failed neighbours
Perturb ==
    /\ ClassifiedLong
    /\ \E p \in JustFailed(script, last, funding_rate, oi_change) :
          /\ last' = p.row
          /\ funding_rate' = p.fr
          /\ oi_change' = p.oi
    /\ side' = "LONG"
    /\ pc' = "perturbed"
    /\ UNCHANGED <<script, df, ret, mainvars>>

\* the classifier of the script is applied to the perturbed snapshot
Reclassify ==
    /\ pc = "perturbed"
    /\ ret' = IF script \in Futures
              THEN evaluate_signal(script, last, funding_rate, oi_change)
              ELSE [fn |-> "long_short", is_long |-> long_condition(last),
                    is_short |-> short_condition(last)]
    /\ pc' = "reclassified"
    /\ UNCHANGED <<script, df, last, funding_rate, oi_change, side, mainvars>>

NextClassify ==
    \/ ComputeIndicators
    \/ EvaluateSignal
    \/ LongShortCondition
    \/ Perturb
    \/ Reclassify

SpecClassify == InitClassify /\ [][NextClassify]_vars

-----------------------------------------------------------------------------
(* Specification of the level calculators: the inputs are drawn, then the   *)
(* script's calculator is applied.                                          *)

\* a negative close never comes from the supplier; it is the input for which
\* the stop-side percentage is negative
PriceVals == {Num(0 - 1000), Num(0), Num(100), Num(1000), Num(1234), NaN}
AtrVals == {NaN, Num(0 - 20), Num(0), Num(2), Num(20), Num(40), Num(80)}
\* an ATR at the resolution of the price: ATR_STOP_MULT * atr and
\* ATR_TP_MULT * atr are rounded before they are added to the close
RoundedAtrVals == {Num(1)}

InitLevels ==
    /\ MainIdle
    /\ script \in Scripts
    /\ pc = "row"
    /\ df = NoDf
    /\ last \in {[close |-> p, atr14 |-> a] :
                    p \in PriceVals,
                    a \in AtrVals \cup (IF script = "main_spot.py"
                                        THEN RoundedAtrVals ELSE {})}
    /\ funding_rate = None
    /\ oi_change = None
    /\ side \in (IF script \in Futures THEN {"LONG", "SHORT", "-"}
                 ELSE {"LONG", "SHORT"})
    /\ ret = NoRet

\* entry, stop, target = calc_entry_stop_target(signal, last_price, last["atr14"])
CalcEntryStopTarget ==
    /\ pc = "row"
    /\ script \in Futures
    /\ ret' = [fn |-> "calc_entry_stop_target", exc |-> "none",
               val |-> calc_entry_stop_target(side, last["close"], last["atr14"])]
    /\ pc' = "done"
    /\ UNCHANGED <<script, df, last, funding_rate, oi_change, side, mainvars>>

\* entry, stop, tp, stop_pct, tp_pct, rr = calc_levels(last, side)
CalcLevels ==
    /\ pc = "row"
    /\ script = "main_spot.py"
    /\ ret' = [fn |-> "calc_levels"] @@ calc_levels(last, side)
    /\ pc' = "done"
    /\ UNCHANGED <<script, df, last, funding_rate, oi_change, side, mainvars>>

NextLevels == CalcEntryStopTarget \/ CalcLevels

SpecLevels == InitLevels /\ [][NextLevels]_vars

-----------------------------------------------------------------------------
(* Specification of compute_score_and_badges *)

ScoreRows ==
    {[close |-> Num(1000), volume |-> Num(v), ema50 |-> e50, ema200 |-> Num(1000),
      obv_slope |-> o, bb_width |-> Num(bw), atr_pct |-> Num(ap),
      macd_line |-> Num(m), macd_signal |-> Num(0), rsi |-> Num(r),
      cmf |-> Num(c), vol_sma20 |-> Num(vs)] :
        v \in {9, 20}, e50 \in {Num(990), Num(1010), NaN},
        o \in {Num(0 - 5), Num(0), Num(5), NaN}, bw \in {5, 8}, ap \in {200, 400},
        m \in MacdVals, r \in {42, 50, 58}, c \in CmfVals, vs \in VolSmaVals}

InitScore ==
    /\ MainIdle
    /\ script = "main_spot.py"
    /\ pc = "row"
    /\ df = NoDf
    /\ last \in ScoreRows
    /\ funding_rate = None
    /\ oi_change = None
    /\ side \in {"LONG", "SHORT"}
    /\ ret = NoRet

\* score, badges = compute_score_and_badges(last, side)
ComputeScoreAndBadges ==
    /\ pc = "row"
    /\ ret' = [fn |-> "compute_score_and_badges"] @@ compute_score_and_badges(last, side)
    /\ pc' = "done"
    /\ UNCHANGED <<script, df, last, funding_rate, oi_change, side, mainvars>>

NextScore == ComputeScoreAndBadges

SpecScore == InitScore /\ [][NextScore]_vars

-----------------------------------------------------------------------------
(* The supplier.  Each request is answered by one of a bounded set of       *)
(* responses; a response is drawn when the request is made.                 *)

MaxSymbols == 3

\* GET exchangeInfo:
\*   raise       connection error, timeout, or a body that is not JSON
\*   rate_limit  non-200, a dict with code and "Too many requests"
\*   http_error  non-200, a dict with code and another message
\*   nondict     200, a non-empty JSON list
\*   nosymbols   200, a dict without "symbols"
\*   ok          200, a dict whose "symbols" holds n entries that pass the
\*               script's filter (TRADING, USDT, ...)
InfoResps ==
    {[kind |-> k, n |-> 0] :
        k \in {"raise", "rate_limit", "http_error", "nondict", "nosymbols"}}
      \cup {[kind |-> "ok", n |-> n] : n \in 0..MaxSymbols}

Failed(resp) == resp.kind # "ok"

FLong == [len |-> 120, cols |-> RawCols(20), ta |-> TaFutures(1020, 1000, 50, 30, 1, 10)]
FShort == [len |-> 60, cols |-> RawCols(20), ta |-> TaFutures(1000, 1020, 50, 30, 0 - 1, 10)]
FNeutral == [len |-> 120, cols |-> RawCols(20), ta |-> TaFutures(1020, 1000, 50, 10, 1, 10)]
FNoRsi == WithNaN(FLong, "rsi")
FNoAtr == [FLong EXCEPT !.ta.atr14 = Num(0)]
FBrief == [FLong EXCEPT !.len = 59]

SLong == [len |-> 300, cols |-> RawCols(20), ta |-> TaSpot(1020, 1000, 50, 30, 1, 10, 20)]
SLongPlain == [len |-> 220, cols |-> [close |-> Num(1001), volume |-> Num(9)],
               ta |-> [TaSpot(1020, 1000, 66, 30, 1, 10, 0) EXCEPT
                          !.ema200 = Num(1100), !.obv_slope = Num(0)]]
SLongNear == [SLong EXCEPT !.cols.close = Num(1001)]
SShort == [len |-> 300, cols |-> RawCols(20), ta |-> TaSpot(1000, 1020, 50, 30, 0 - 1, 10, 0 - 20)]
SNeutral == [len |-> 300, cols |-> RawCols(20), ta |-> TaSpot(1020, 1000, 50, 10, 1, 10, 20)]
SNoAtr == WithNaN(SLong, "atr14")
SZero == [SLong EXCEPT !.cols.close = Num(0)]
SFlat == [SLong EXCEPT !.ta.atr14 = Num(0)]
SBrief == [SLong EXCEPT !.len = 219]

\* GET klines:
\*   raise      connection error, timeout, non-200 or a body that is not JSON
\*              (on every attempt, where the script retries)
\*   error      a dict with "code"
\*   malformed  a JSON list that pd.DataFrame / astype(float) rejects
\*   poison     a series on which a ta indicator raises
\*   ok         a series of candles
\* GET fundingRate: raise, empty (an empty list or an error dict), ok
\* GET openInterestHist: raise, brief (not a list, or under 2 samples),
\*   ok with the two sumOpenInterest samples
Klines(k, d) == [kind |-> k, df |-> d]
Funding(k, r) == [kind |-> k, rate |-> r]
OpenInterest(k, p, l) == [kind |-> k, prev |-> p, last |-> l]

NoFunding == Funding("none", None)
NoOi == OpenInterest("none", 0, 0)

\* what the supplier holds for one symbol: its klines, funding and OI answers
Market(k, f, o) == [klines |-> k, funding |-> f, oi |-> o]

FuturesMarkets ==
    {Market(Klines(k, NoDf), NoFunding, NoOi) : k \in {"raise", "error", "malformed"}}
      \cup {Market(Klines("poison", FLong), NoFunding, NoOi),
            Market(Klines("ok", FBrief), NoFunding, NoOi),
            Market(Klines("ok", FLong), Funding("ok", Num(10)), OpenInterest("ok", 100, 105)),
            Market(Klines("ok", FLong), Funding("ok", Num(10)), OpenInterest("ok", 100, 110)),
            Market(Klines("ok", FShort), Funding("ok", Num(0 - 10)), OpenInterest("ok", 100, 105)),
            Market(Klines("ok", FNeutral), Funding("ok", Num(10)), OpenInterest("ok", 100, 95)),
            Market(Klines("ok", FLong), Funding("empty", None), OpenInterest("ok", 100, 105)),
            Market(Klines("ok", FLong), Funding("raise", None), NoOi),
            Market(Klines("ok", FLong), Funding("ok", Num(10)), OpenInterest("raise", 0, 0)),
            Market(Klines("ok", FLong), Funding("ok", Num(10)), OpenInterest("brief", 0, 0)),
            Market(Klines("ok", FLong), Funding("ok", Num(10)), OpenInterest("ok", 0, 5)),
            Market(Klines("ok", FNoRsi), Funding("ok", Num(10)), OpenInterest("ok", 100, 105)),
            Market(Klines("ok", FNoRsi), Funding("empty", None), OpenInterest("ok", 100, 105)),
            Market(Klines("ok", FNoAtr), Funding("ok", Num(10)), OpenInterest("ok", 100, 105))}

SpotMarkets ==
    {Market(Klines(k, NoDf), NoFunding, NoOi) : k \in {"raise", "error", "malformed"}}
      \cup {Market(Klines("poison", SLong), NoFunding, NoOi)}
      \cup {Market(Klines("ok", d), NoFunding, NoOi) :
                d \in {SBrief, SLong, SLongPlain, SLongNear, SShort, SNeutral,
                       SNoAtr, SZero, SFlat}}

Markets(s) == IF s \in Futures THEN FuturesMarkets ELSE SpotMarkets

\* the settings of main_spot.py's environment that are explored
Configs ==
    {[ONLY_SIGNAL |-> o, SIDE_FILTER |-> f, MIN_RR |-> m] :
        o \in BOOLEAN, f \in {"ALL", "LONG", "SHORT"}, m \in {1200, 1667}}

-----------------------------------------------------------------------------
(* The fetch functions.  Each returns [exc, val]: exc is TRUE when the      *)
(* function raised.                                                         *)

Returned(v) == [exc |-> FALSE, val |-> v]
Raised == [exc |-> TRUE, val |-> None]

\* get_klines (futures scripts) / get_futures_klines over get_json
\* (main_spot.py); val is a DataFrame, or NoDf for None
get_klines(s, k) ==
    CASE s = "main-futures.py" ->
            IF k.kind \in {"raise", "malformed"} THEN Raised
            ELSE IF k.kind = "error" THEN Returned(NoDf)
            ELSE Returned(k.df)
      [] s = "main_futures.py" ->
            IF k.kind \in {"raise", "malformed", "error"} THEN Returned(NoDf)
            ELSE Returned(k.df)
      [] s = "main_spot.py" ->
            IF k.kind \in {"raise", "error"} THEN Returned(NoDf)
            ELSE IF k.kind = "malformed" THEN Raised
            ELSE IF k.df.len = 0 THEN Returned(NoDf)
            ELSE Returned(k.df)

get_funding_rate(s, f) ==
    IF f.kind = "raise"
    THEN (IF s = "main-futures.py" THEN Raised ELSE Returned(None))
    ELSE IF f.kind = "empty" THEN Returned(None)
    ELSE Returned(f.rate)

\* (last_oi - prev_oi) / prev_oi * 100.0, in percent
get_open_interest_change(s, o) ==
    IF o.kind = "raise"
    THEN (IF s = "main-futures.py" THEN Raised ELSE Returned(None))
    ELSE IF o.kind = "brief" THEN Returned(None)
    ELSE IF o.prev = 0 THEN Returned(None)
    ELSE Returned(Ratio(Sub(Num(o.last), Num(o.prev)), Num(o.prev), 100))

-----------------------------------------------------------------------------
(* One iteration of main's for loop: the rows it appends, whether it ended  *)
(* in the except clause, and the calls it made.                             *)

Iter(rs, r, c) == [rows |-> rs, raised |-> r, calls |-> c]

min_len_spot_halved(s) == IF s \in Futures THEN 60 ELSE 110

\* if df is None or len(df) < 60: continue   (220 in main_spot.py)
min_len(s) == IF s \in Futures THEN 60 ELSE 220

OrZero_kept(x) == x

\* x if x is not None else 0.0  /  x or 0.0
OrZero(x) == PyOr(x, 0)

futures_row(s, sym, lastrow, sig, fr, oi) ==
    LET lv == calc_entry_stop_target(sig, lastrow["close"], lastrow["atr14"])
    IN  [symbol |-> sym, signal |-> sig, entry |-> lv[1], stop |-> lv[2],
         target |-> lv[3], last_price |-> lastrow["close"],
         funding_rate |-> OrZero(fr), oi_change |-> OrZero(oi),
         rsi |-> lastrow["rsi"], adx |-> lastrow["adx"],
         macd_hist |-> lastrow["macd_hist"]]

futures_iteration(s, sym, m) ==
    LET kl == get_klines(s, m.klines)
        d == compute_indicators(s, kl.val)
        lastrow == iloc_last(d)
        fr == get_funding_rate(s, m.funding)
        oi == get_open_interest_change(s, m.oi)
        sig == evaluate_signal(s, lastrow, fr.val, oi.val).signal
    IN  IF kl.exc THEN Iter(<<>>, TRUE, <<"klines">>)
        ELSE IF kl.val = NoDf \/ kl.val.len < min_len(s) THEN Iter(<<>>, FALSE, <<"klines">>)
        ELSE IF m.klines.kind = "poison"
             THEN Iter(<<>>, TRUE, <<"klines", "indicators">>)
        ELSE IF fr.exc THEN Iter(<<>>, TRUE, <<"klines", "indicators", "funding">>)
        ELSE IF oi.exc THEN Iter(<<>>, TRUE, <<"klines", "indicators", "funding", "oi">>)
        ELSE IF sig = "KeyError"
             THEN Iter(<<>>, TRUE, <<"klines", "indicators", "funding", "oi">>)
        ELSE IF s = "main-futures.py"
                /\ (isna(lastrow["rsi"]) \/ isna(lastrow["adx"])
                    \/ isna(lastrow["macd_hist"]))
             THEN Iter(<<>>, FALSE, <<"klines", "indicators", "funding", "oi">>)
        ELSE Iter(<< futures_row(s, sym, lastrow, sig, fr.val, oi.val) >>, FALSE,
                  <<"klines", "indicators", "funding", "oi">>)

candidates_both_sides(c, lastrow, is_long, is_short) ==
    IF c.SIDE_FILTER = "ALL" /\ (is_long = "True" \/ is_short = "True")
    THEN <<"LONG", "SHORT">>
    ELSE IF ~c.ONLY_SIGNAL
         THEN (IF Gt(lastrow["ema50"], lastrow["ema200"]) THEN <<"LONG">> ELSE <<"SHORT">>)
         ELSE <<>>

\* candidates of main_spot.py
candidates(c, lastrow, is_long, is_short) ==
    LET picked == (IF c.SIDE_FILTER \in {"ALL", "LONG"} /\ is_long = "True"
                   THEN <<"LONG">> ELSE <<>>)
                  \o (IF c.SIDE_FILTER \in {"ALL", "SHORT"} /\ is_short = "True"
                      THEN <<"SHORT">> ELSE <<>>)
    IN  IF ~c.ONLY_SIGNAL /\ picked = <<>>
        THEN (IF Gt(lastrow["ema50"], lastrow["ema200"]) THEN <<"LONG">> ELSE <<"SHORT">>)
        ELSE picked

spot_row(sym, lastrow, sd, sb, lv) ==
    LET opt(x) == IF ~isna(x) THEN x ELSE None
    IN  [symbol |-> sym, side |-> sd, close |-> lastrow["close"],
         score |-> sb.score, entry |-> lv[1], stop |-> lv[2], tp |-> lv[3],
         stop_pct |-> lv[4], tp_pct |-> lv[5], rr |-> lv[6],
         rsi |-> opt(lastrow["rsi"]), adx |-> opt(lastrow["adx"]),
         atr_pct |-> opt(lastrow["atr_pct"]),
         vol_ratio |-> Ratio(lastrow["volume"], PyOr(lastrow["vol_sma20"], 1), 100),
         cmf |-> opt(lastrow["cmf"]), badges |-> sb.badges]

RECURSIVE spot_candidates_any_rr(_, _, _, _, _)
spot_candidates_any_rr(c, sym, lastrow, cands, acc) ==
    IF cands = <<>> THEN [rows |-> acc, raised |-> FALSE]
    ELSE LET sd == Head(cands)
             sb == compute_score_and_badges(lastrow, sd)
             lv == calc_levels(lastrow, sd)
         IN  IF lv.exc # "none" THEN [rows |-> acc, raised |-> TRUE]
             ELSE IF lv.val[6] = None
                  THEN spot_candidates_any_rr(c, sym, lastrow, Tail(cands), acc)
             ELSE spot_candidates_any_rr(c, sym, lastrow, Tail(cands),
                                         Append(acc, spot_row(sym, lastrow, sd, sb, lv.val)))

\* for side in candidates: ...  ; acc are the rows appended so far
RECURSIVE spot_candidates(_, _, _, _, _)
spot_candidates(c, sym, lastrow, cands, acc) ==
    IF cands = <<>> THEN [rows |-> acc, raised |-> FALSE]
    ELSE LET sd == Head(cands)
             sb == compute_score_and_badges(lastrow, sd)
             lv == calc_levels(lastrow, sd)
         IN  IF lv.exc # "none" THEN [rows |-> acc, raised |-> TRUE]
             ELSE IF lv.val[6] = None \/ Lt(lv.val[6], Num(c.MIN_RR))
                  THEN spot_candidates(c, sym, lastrow, Tail(cands), acc)
             ELSE spot_candidates(c, sym, lastrow, Tail(cands),
                                  Append(acc, spot_row(sym, lastrow, sd, sb, lv.val)))

spot_iteration(c, sym, m) ==
    LET s == "main_spot.py"
        kl == get_klines(s, m.klines)
        d == compute_indicators(s, kl.val)
        lastrow == iloc_last(d)
        is_long == long_condition(lastrow)
        is_short == short_condition(lastrow)
        out == spot_candidates(c, sym, lastrow,
                               candidates(c, lastrow, is_long, is_short), <<>>)
    IN  IF kl.exc THEN Iter(<<>>, TRUE, <<"klines">>)
        ELSE IF kl.val = NoDf \/ kl.val.len < min_len(s) THEN Iter(<<>>, FALSE, <<"klines">>)
        ELSE IF m.klines.kind = "poison"
             THEN Iter(<<>>, TRUE, <<"klines", "indicators">>)
        ELSE IF is_long = "KeyError" \/ is_short = "KeyError"
             THEN Iter(<<>>, TRUE, <<"klines", "indicators">>)
        ELSE Iter(out.rows, out.raised, <<"klines", "indicators">>)

iteration(s, c, sym, m) ==
    IF s \in Futures THEN futures_iteration(s, sym, m) ELSE spot_iteration(c, sym, m)

\* try: ... except Exception: continue -- the loop goes on with the next
\* symbol whether the iteration raised or not
next_index_abort(i, raised, n) == IF raised THEN n + 1 ELSE i + 1

next_index_skip(i, raised, n) == IF raised THEN i + 2 ELSE i + 1

next_index(i, raised, n) == i + 1

\* rows after the for loop when the symbols are taken in the given order (a
\* sequence of positions in the symbol list) and the iteration for the symbol
\* at position p appends outs[p].rows and raises if outs[p].raised; k is the
\* position reached in order and acc the rows so far
RECURSIVE for_loop(_, _, _, _)
for_loop(outs, order, k, acc) ==
    IF k > Len(order) THEN acc
    ELSE for_loop(outs, order,
                  next_index(k, outs[order[k]].raised, Len(order)),
                  acc \o outs[order[k]].rows)

-----------------------------------------------------------------------------
(* sorted(rows, key=...): a stable sort, ascending in the key *)

Abs(x) == IF x < 0 THEN 0 - x ELSE x

sort_key_ascending(s, r) ==
    IF s \in Futures
    THEN << (IF r.signal = "LONG" THEN 0 ELSE IF r.signal = "SHORT" THEN 1 ELSE 2),
            Abs(Val(r.oi_change)) >>
    ELSE << 0 - r.score, Val(PyOr(r.rr, 0)) >>

\* futures: (0 LONG / 1 SHORT / 2 other, -abs(oi_change));
\* main_spot.py: (-score, -(rr or 0))
sort_key(s, r) ==
    IF s \in Futures
    THEN << (IF r.signal = "LONG" THEN 0 ELSE IF r.signal = "SHORT" THEN 1 ELSE 2),
            0 - Abs(Val(r.oi_change)) >>
    ELSE << 0 - r.score, 0 - Val(PyOr(r.rr, 0)) >>

\* tuple comparison
KeyLt(a, b) == a[1] < b[1] \/ (a[1] = b[1] /\ a[2] < b[2])
KeyLe(a, b) == a[1] < b[1] \/ (a[1] = b[1] /\ a[2] <= b[2])

\* out with r placed before the first row whose key is greater (after its equals)
RECURSIVE insert_after_equals(_, _, _)
insert_after_equals(s, r, out) ==
    IF out = <<>> THEN <<r>>
    ELSE IF KeyLt(sort_key(s, r), sort_key(s, Head(out))) THEN <<r>> \o out
    ELSE <<Head(out)>> \o insert_after_equals(s, r, Tail(out))

RECURSIVE insert_before_equals(_, _, _)
insert_before_equals(s, r, out) ==
    IF out = <<>> THEN <<r>>
    ELSE IF KeyLe(sort_key(s, r), sort_key(s, Head(out))) THEN <<r>> \o out
    ELSE <<Head(out)>> \o insert_before_equals(s, r, Tail(out))

Front(q) == SubSeq(q, 1, Len(q) - 1)

RECURSIVE sorted_unstable(_, _)
sorted_unstable(s, rs) ==
    IF rs = <<>> THEN <<>>
    ELSE insert_before_equals(s, rs[Len(rs)], sorted_unstable(s, Front(rs)))

RECURSIVE sorted(_, _)
sorted(s, rs) ==
    IF rs = <<>> THEN <<>>
    ELSE insert_after_equals(s, rs[Len(rs)], sorted(s, Front(rs)))

-----------------------------------------------------------------------------
(* main *)

max_retries == 5
delay == 50
info_retries == 7
info_backoff == 17

SymbolList(n) == [i \in 1..n |-> i]

InitMain ==
    /\ script \in Scripts
    /\ pc = "symbols"
    /\ df = NoDf /\ last = NoRow /\ funding_rate = None /\ oi_change = None
    /\ side = "-" /\ ret = NoRet
    /\ cfg \in (IF script = "main_spot.py" THEN Configs ELSE {DefaultCfg})
    /\ attempt = 1
    /\ waits = <<>>
    /\ symbols = <<>>
    /\ idx = 1
    /\ rows = <<>>
    /\ rows_sorted = <<>>
    /\ status = "running"
    /\ calls = <<>>
    /\ alone = <<>>
    /\ excepted = {}
    /\ market = NoMarket
    /\ all_failed = TRUE

\* main-futures.py: symbols = get_futures_symbols(), one request, nothing caught
GetSymbolsOnce ==
    /\ pc = "symbols"
    /\ script = "main-futures.py"
    /\ \E resp \in InfoResps :
          /\ all_failed' = (all_failed /\ Failed(resp))
          /\ IF resp.kind = "ok"
             THEN /\ symbols' = SymbolList(resp.n)
                  /\ pc' = "loop"
                  /\ status' = status
             ELSE \* requests raises, or data["symbols"] raises KeyError / TypeError
                  /\ symbols' = symbols
                  /\ pc' = "exit"
                  /\ status' = "crash"
    /\ UNCHANGED <<script, fnvars, cfg, attempt, waits, idx, rows, rows_sorted,
                   calls, alone, excepted, market>>

\* main_futures.py: one pass of get_futures_symbols' for loop, or its end
GetSymbolsAttempt ==
    /\ pc = "symbols"
    /\ script = "main_futures.py"
    /\ IF attempt <= max_retries
       THEN \E resp \in InfoResps :
              /\ all_failed' = (all_failed /\ Failed(resp))
              /\ IF resp.kind = "ok" /\ resp.n > 0
                 THEN /\ symbols' = SymbolList(resp.n)
                      /\ pc' = "loop"
                      /\ attempt' = 1
                      /\ waits' = <<>>
                 ELSE /\ waits' = Append(waits, IF resp.kind = "rate_limit"
                                                THEN delay * attempt ELSE delay)
                      /\ attempt' = attempt + 1
                      /\ UNCHANGED <<symbols, pc>>
       ELSE \* return []
            /\ symbols' = <<>>
            /\ pc' = "loop"
            /\ attempt' = 1
            /\ waits' = <<>>
            /\ UNCHANGED all_failed
    /\ UNCHANGED <<script, fnvars, cfg, idx, rows, rows_sorted, status, calls, alone, excepted, market>>

\* main_spot.py: one pass of get_json's for loop for exchangeInfo, or its end,
\* then the rest of get_futures_symbols_usdtm and main's  if not symbols
GetJsonAttempt ==
    /\ pc = "symbols"
    /\ script = "main_spot.py"
    /\ IF attempt <= info_retries
       THEN \E resp \in InfoResps :
              /\ all_failed' = (all_failed /\ Failed(resp))
              /\ IF resp.kind \in {"raise", "rate_limit", "http_error"}
                 THEN /\ waits' = Append(waits, info_backoff * attempt)
                      /\ attempt' = attempt + 1
                      /\ UNCHANGED <<symbols, pc, status>>
                 ELSE /\ attempt' = 1
                      /\ waits' = <<>>
                      /\ IF resp.kind = "nondict"
                         THEN \* data.get raises AttributeError
                              /\ pc' = "exit" /\ status' = "crash"
                              /\ symbols' = symbols
                         ELSE IF resp.kind = "nosymbols" \/ resp.n = 0
                         THEN \* empty dashboards are written, main returns
                              /\ pc' = "exit" /\ status' = "ok"
                              /\ symbols' = <<>>
                         ELSE /\ pc' = "loop" /\ status' = status
                              /\ symbols' = SymbolList(resp.n)
       ELSE \* get_json returns None: empty dashboards are written
            /\ attempt' = 1
            /\ waits' = <<>>
            /\ symbols' = <<>>
            /\ pc' = "exit" /\ status' = "ok"
            /\ UNCHANGED all_failed
    /\ UNCHANGED <<script, fnvars, cfg, idx, rows, rows_sorted, calls, alone, excepted, market>>

\* one iteration of  for symbol in symbols: try: ... except Exception: continue
ProcessSymbol ==
    /\ pc = "loop"
    /\ idx <= Len(symbols)
    /\ \E m \in Markets(script) :
          LET it == iteration(script, cfg, symbols[idx], m)
          IN  /\ rows' = rows \o it.rows
              /\ idx' = next_index(idx, it.raised, Len(symbols))
              /\ calls' = it.calls
              /\ alone' = Append(alone, it.rows)
              /\ excepted' = IF it.raised THEN excepted \cup {symbols[idx]} ELSE excepted
              /\ market' = m
              /\ all_failed' = (all_failed /\ m.klines.kind \in {"raise", "error", "malformed"})
    /\ UNCHANGED <<script, pc, fnvars, cfg, attempt, waits, symbols, rows_sorted, status>>

\* rows_sorted = sorted(rows, key=...); the report is written; main returns
SortAndReport ==
    /\ pc = "loop"
    /\ idx > Len(symbols)
    /\ rows_sorted' = sorted(script, rows)
    /\ status' = "ok"
    /\ pc' = "exit"
    /\ UNCHANGED <<script, fnvars, cfg, attempt, waits, symbols, idx, rows,
                   calls, alone, excepted, market, all_failed>>

NextMain ==
    \/ GetSymbolsOnce
    \/ GetSymbolsAttempt
    \/ GetJsonAttempt
    \/ ProcessSymbol
    \/ SortAndReport

SpecMain == InitMain /\ [][NextMain]_vars

-----------------------------------------------------------------------------
(* Claims *)

\* column c of row is undefined: NaN, or not a column of the row
Undefined(row, c) == c \notin DOMAIN row \/ isna(row[c])

\* C1: the LONG predicate and the SHORT predicate are never both true:
\* long_cond and short_cond of evaluate_signal, and long_condition(last) and
\* short_condition(last) of main_spot.py, do not hold together.
C1_MutuallyExclusive ==
    pc = "done" =>
        /\ ret.fn = "evaluate_signal" =>
               ~(ret.long_cond = "True" /\ ret.short_cond = "True")
        /\ ret.fn = "long_short" =>
               ~(ret.is_long = "True" /\ ret.is_short = "True")

\* C1 witness: main_spot.py classified LONG a row whose EMAs are within both
\* tolerances, whose RSI is in both bands and whose CMF is in both ranges.
C1_Witness ==
    /\ pc = "done"
    /\ ret.fn = "long_short"
    /\ ret.is_long = "True"
    /\ last["ema9"] = Num(1008) /\ last["ema50"] = Num(1012)
    /\ last["rsi"] = Num(50) /\ last["cmf"] = Num(0)

\* C2: whenever a column a classification predicate reads is undefined (NaN
\* or missing), the classifier returns NEUTRAL and does not raise.
C2_UndefinedIsNeutral ==
    (pc = "done" /\ \E c \in ReadCols(script) : Undefined(last, c)) =>
        /\ ret.fn = "evaluate_signal" => ret.signal = "-"
        /\ ret.fn = "long_short" => ret.is_long = "False" /\ ret.is_short = "False"

\* C7: for a candle series shorter than 60 bars the futures scripts'
\* compute_indicators leaves every indicator undefined, the classifier
\* returns NEUTRAL without raising, and stop and target are undefined.
C7_ShortSeriesNeutral ==
    (pc = "done" /\ script \in Futures /\ df.len \in 1..59) =>
        /\ \A i \in 1..Len(needed) : Undefined(last, needed[i])
        /\ ret.signal = "-"
        /\ LET lv == calc_entry_stop_target(ret.signal, last["close"],
                                            Get(last, "atr14"))
           IN  lv[2] = None /\ lv[3] = None

\* C3: for every price p and ATR a > 0, calc_entry_stop_target returns
\* (p, p - 1.5a, p + 2.0a) for LONG and (p, p + 1.5a, p - 2.0a) for SHORT;
\* close 100, ATR 2 gives 97 / 104 for LONG and 103 / 96 for SHORT.
C3_EntryStopTarget ==
    (/\ pc = "done" /\ ret.fn = "calc_entry_stop_target"
     /\ side \in {"LONG", "SHORT"}
     /\ IsNum(last["close"]) /\ Gt(last["atr14"], Num(0))) =>
        LET p == Val(last["close"])
            a == Val(last["atr14"])
            sgn == IF side = "LONG" THEN 1 ELSE 0 - 1
            v == ret.val
        IN  /\ v[1] = last["close"]
            /\ IsNum(v[2]) /\ IsNum(v[3])
            /\ 10 * (p - Val(v[2])) = sgn * 15 * a
            /\ Val(v[3]) - p = sgn * 2 * a
            /\ (p = 1000 /\ a = 20) =>
                   v = IF side = "LONG" THEN <<Num(1000), Num(970), Num(1040)>>
                       ELSE <<Num(1000), Num(1030), Num(960)>>

\* C3 witness: SHORT at close 100 with ATR 2 was given stop 103, target 96.
C3_Witness ==
    /\ pc = "done" /\ ret.fn = "calc_entry_stop_target"
    /\ side = "SHORT" /\ last["close"] = Num(1000) /\ last["atr14"] = Num(20)
    /\ ret.val = <<Num(1000), Num(1030), Num(960)>>

\* C4: when ATR is NaN or <= 0, calc_entry_stop_target returns
\* (last_price, None, None) and calc_levels returns
\* (close, None, None, None, None, None), whatever the direction.
C4_NoAtrNoLevels ==
    (pc = "done" /\ (isna(last["atr14"]) \/ Val(last["atr14"]) <= 0)) =>
        /\ ret.fn = "calc_entry_stop_target" =>
               ret.val = <<last["close"], None, None>>
        /\ ret.fn = "calc_levels" =>
               /\ ret.exc = "none"
               /\ ret.val = <<last["close"], None, None, None, None, None>>

\* C4 witness: calc_levels was applied to a row whose ATR is 0.
C4_Witness ==
    /\ pc = "done" /\ ret.fn = "calc_levels"
    /\ last["atr14"] = Num(0) /\ last["close"] = Num(1000)
    /\ ret.val[2] = None

\* the points the claim gives each badge
BadgePoints(b) ==
    IF b[1] = "moderate" THEN 1
    ELSE IF b[2] \in {"Golden Cross", "Death Cross"} THEN 3 ELSE 2

RECURSIVE SumPoints(_)
SumPoints(bs) == IF bs = <<>> THEN 0 ELSE BadgePoints(Head(bs)) + SumPoints(Tail(bs))

\* the place of a badge in the code's evaluation order
BadgeRank(b) ==
    CASE b[2] \in {"Golden Cross", "Death Cross"} -> 1
      [] b[2] \in {"OBV up", "OBV down"} -> 2
      [] b[2] = "Squeeze (BB+ATR)" -> 3
      [] b[2] \in {"MACD Up", "MACD Down"} -> 4
      [] b[2] = "RSI Zone" -> 5
      [] b[2] \in {"CMF+", "CMF-"} -> 6
      [] b[2] = "Volume Spike" -> 7

\* C10: the score of compute_score_and_badges is a non-negative integer equal
\* to 3 or 2 per strong badge plus 1 per moderate badge, and the badge string
\* lists the strong badges first, then the moderate ones, each in evaluation
\* order (the result depends on the row and the side alone).
C10_ScoreMatchesBadges ==
    (pc = "done" /\ ret.fn = "compute_score_and_badges") =>
        /\ ret.score \in Nat
        /\ ret.score = SumPoints(ret.badges)
        /\ \A i, j \in 1..Len(ret.badges) :
               i < j => /\ ~(ret.badges[i][1] = "moderate" /\ ret.badges[j][1] = "strong")
                        /\ BadgeRank(ret.badges[i]) < BadgeRank(ret.badges[j])
        /\ \A i \in 1..Len(ret.badges) :
               (ret.badges[i][1] = "strong") <=> (BadgeRank(ret.badges[i]) <= 3)

\* C10 witness: a LONG row scored 3 + 2 + 1 with a strong and moderate badges.
C10_Witness ==
    /\ pc = "done" /\ ret.fn = "compute_score_and_badges"
    /\ side = "LONG"
    /\ ret.score = 6
    /\ ret.badges = << <<"strong", "Golden Cross">>, <<"strong", "OBV up">>,
                       <<"moderate", "Volume Spike">> >>

-----------------------------------------------------------------------------
(* Claims about main *)

Reported == pc = "exit" /\ status = "ok"

IsPrefix(p, q) == Len(p) <= Len(q) /\ SubSeq(q, 1, Len(p)) = p

InReport(r) == \E j \in 1..Len(rows_sorted) : rows_sorted[j] = r

\* C5: an exception raised in one symbol's iteration leaves the rows
\* already collected unchanged, and the loop continues with the next symbol:
\* when the report is written every symbol of the list has had its turn and
\* every row a symbol yields on its own is in the report.
C5_ExceptionIsolated ==
    /\ [](Reported =>
            /\ Len(alone) = Len(symbols)
            /\ \A i \in 1..Len(alone) : \A k \in 1..Len(alone[i]) :
                  InReport(alone[i][k]))
    /\ [][pc = "loop" => IsPrefix(rows, rows')]_vars

\* the second of three symbols raised; the first and the third are reported
C5_Witness ==
    /\ Reported
    /\ Len(symbols) = 3
    /\ excepted = {2}
    /\ alone[1] # <<>> /\ alone[3] # <<>>
    /\ InReport(alone[1][1]) /\ InReport(alone[3][1])

\* C6: when every request to the supplier has failed, main ends normally
\* with a report of zero rows and never with an uncaught exception.
C6_TotalFailureEmptyReport ==
    (pc = "exit" /\ all_failed) => (status = "ok" /\ rows_sorted = <<>>)

Rank(r) == IF r.signal = "LONG" THEN 0 ELSE IF r.signal = "SHORT" THEN 1 ELSE 2

\* C8: in the futures reports LONG rows precede SHORT rows and SHORT rows
\* precede neutral rows, and within one class |oi_change| does not increase;
\* in main_spot.py score does not increase and, within equal score, rr does
\* not increase.
C8_ReportOrder ==
    Reported =>
        \A i, j \in 1..Len(rows_sorted) : i < j =>
            LET a == rows_sorted[i]
                b == rows_sorted[j]
            IN  IF script \in Futures
                THEN /\ Rank(a) <= Rank(b)
                     /\ Rank(a) = Rank(b) =>
                            Abs(Val(a.oi_change)) >= Abs(Val(b.oi_change))
                ELSE /\ a.score >= b.score
                     /\ a.score = b.score => Val(a.rr) >= Val(b.rr)

\* a futures report with the three classes, which the sort had to reorder
C8_Witness ==
    /\ Reported
    /\ script \in Futures
    /\ Len(rows_sorted) = 3
    /\ rows_sorted # rows
    /\ {rows_sorted[i].signal : i \in 1..3} = {"LONG", "SHORT", "-"}

\* the primary and the secondary sort key of two rows are equal
SameKeys(a, b) ==
    IF script \in Futures
    THEN Rank(a) = Rank(b) /\ Abs(Val(a.oi_change)) = Abs(Val(b.oi_change))
    ELSE a.score = b.score /\ Val(a.rr) = Val(b.rr)

\* C9: two rows with equal primary and secondary keys are in the report in
\* the order in which their symbols were processed.
C9_StableRanking ==
    Reported =>
        \A i, j \in 1..Len(rows_sorted) :
            (i < j /\ SameKeys(rows_sorted[i], rows_sorted[j])) =>
                rows_sorted[i].symbol <= rows_sorted[j].symbol

\* two rows with equal keys whose oi_change differs in sign, in a report
\* the sort had to reorder
C9_Witness ==
    /\ Reported
    /\ rows_sorted # rows
    /\ \E i, j \in 1..Len(rows_sorted) :
          /\ i < j
          /\ SameKeys(rows_sorted[i], rows_sorted[j])
          /\ script \in Futures => rows_sorted[i].oi_change # rows_sorted[j].oi_change


\* C11: a LONG snapshot in which one input is changed so that exactly one
\* satisfied LONG predicate just fails is classified NEUTRAL, never SHORT.
C11_JustFailedIsNeutral ==
    pc = "reclassified" =>
        IF script \in Futures
        THEN ret.signal = "-" /\ ret.short_cond # "True"
        ELSE ret.is_long = "False" /\ ret.is_short = "False"


RetryLimit == IF script = "main_futures.py" THEN max_retries ELSE info_retries

Retrying == pc = "symbols" /\ script # "main-futures.py"

\* at most RetryLimit requests are made, one wait after each failed one
RetriesBounded == Retrying => (attempt <= RetryLimit + 1 /\ Len(waits) = attempt - 1)

\* once the attempts are used up the function returns its empty result
ExhaustedGivesEmpty ==
    (Retrying /\ attempt > RetryLimit) => (pc' # "symbols" /\ symbols' = <<>>)

\* each wait is longer than the one before
WaitsGrow == \A i \in 1..(Len(waits) - 1) : waits[i] < waits[i + 1]

\* C12: every retry loop makes a bounded number of requests and then returns
\* an empty result (get_json: at most retries, then None; get_futures_symbols
\* of main_futures.py: at most max_retries, then []), and the wait between
\* consecutive failed attempts grows with the attempt number.
C12_BoundedRetriesWithBackoff == RetriesBounded /\ WaitsGrow

\* the part of C12 about the result: every step taken with the attempts used
\* up leaves the retry loop with the empty result
C12_ExhaustedGivesEmpty == [][ExhaustedGivesEmpty]_vars


\* a symbol was processed: market holds the supplier's answers for it,
\* LastSymbol is the symbol and LastAlone what its iteration yielded
Processed == Len(alone) > 0
LastSymbol == symbols[Len(alone)]
LastAlone == alone[Len(alone)]

Range(q) == {q[i] : i \in 1..Len(q)}

\* the candle fetch failed, or the series is under the minimum length
NoCandles(m) ==
    \/ m.klines.kind \in {"raise", "error", "malformed"}
    \/ m.klines.df.len < (IF script \in Futures THEN 60 ELSE 220)

\* C13: a symbol whose candle fetch fails or whose series is shorter than the
\* minimum (60 bars in the futures scripts, 220 in main_spot.py) contributes
\* no row, and nothing is computed or fetched for it after the candles.
C13_NoCandlesNoRow ==
    /\ (Processed /\ NoCandles(market)) =>
          /\ LastAlone = <<>>
          /\ \A k \in 1..Len(rows) : rows[k].symbol # LastSymbol
          /\ calls = <<"klines">>
    \* and a row is never collected under the name of a symbol that yielded none
    /\ \A k \in 1..Len(rows) :
          \E i \in 1..Len(alone) : alone[i] # <<>> /\ rows[k].symbol = symbols[i]
    /\ Reported => Range(rows_sorted) \subseteq Range(rows)

\* processed in order: two symbols with a row each, then a series one bar short
C13_Witness ==
    /\ Reported
    /\ Len(alone) = 3
    /\ market.klines.kind = "ok"
    /\ market.klines.df.len \in {59, 219}
    /\ Len(rows_sorted) = 2


\* candles of at least 60 bars came, the indicators were computed, and the
\* funding rate or the open-interest change came back as None
AuxMissing(m) ==
    /\ m.klines.kind = "ok"
    /\ m.klines.df.len >= 60
    /\ ~get_funding_rate(script, m.funding).exc
    /\ ~get_open_interest_change(script, m.oi).exc
    /\ \/ get_funding_rate(script, m.funding).val = None
       \/ get_open_interest_change(script, m.oi).val = None

\* the one row of the symbol processed last is neutral, without stop and
\* target, and shows 0.0 for what was missing
NeutralRow ==
    /\ Len(LastAlone) = 1
    /\ LastAlone[1].symbol = LastSymbol
    /\ LastAlone[1].signal = "-"
    /\ LastAlone[1].stop = None /\ LastAlone[1].target = None
    /\ get_funding_rate(script, market.funding).val = None
          => LastAlone[1].funding_rate = Num(0)
    /\ get_open_interest_change(script, market.oi).val = None
          => LastAlone[1].oi_change = Num(0)
    /\ Reported => InReport(LastAlone[1])

\* main-futures.py leaves out a symbol whose RSI, ADX or MACD histogram is NaN
SkippedForNaN(m) ==
    /\ script = "main-futures.py"
    /\ \E c \in {"rsi", "adx", "macd_hist"} : isna(m.klines.df.ta[c])

\* C14 as stated: in the futures scripts a symbol whose funding rate or
\* open-interest change is None still gets a row: NEUTRAL, stop and target
\* undefined, funding / OI shown as 0.0.
C14_MissingAuxStillReported ==
    (script \in Futures /\ Processed /\ AuxMissing(market)) => NeutralRow

\* C14, amended: the same, except that main-futures.py reports no row for a
\* symbol whose RSI, ADX or MACD histogram is NaN.
C14_MissingAuxStillReportedUnlessNaN ==
    (script \in Futures /\ Processed /\ AuxMissing(market)) =>
        IF SkippedForNaN(market) THEN LastAlone = <<>> ELSE NeutralRow

\* a symbol whose indicators qualify LONG but whose funding rate is None is
\* in the report as a neutral row
C14_Witness ==
    /\ Reported
    /\ script \in Futures
    /\ market.klines.df = FLong
    /\ market.funding.kind = "empty"
    /\ NeutralRow


\* calc_levels returned levels (the ATR guard was passed, nothing raised)
LevelsReturned ==
    /\ pc = "done" /\ ret.fn = "calc_levels" /\ ret.exc = "none"
    /\ ret.val[2] # None

\* the move from a to b as a percentage of entry, in 1/10000 of a percent
PctMove(a, b, entry) ==
    IF IsNum(a) /\ IsNum(b) /\ IsNum(entry)
    THEN Num(((Val(b) - Val(a)) * 1000000) \div Val(entry)) ELSE NaN

\* C15: calc_levels returns rr = tp_pct / stop_pct, stop_pct and tp_pct being
\* the stop-side and the target-side move as a percentage of entry, whenever
\* stop_pct > 0, and rr None whenever stop_pct is zero or negative.
C15_RiskReward ==
    LevelsReturned =>
        LET entry == ret.val[1]
            stop == ret.val[2]
            tp == ret.val[3]
            stop_pct == ret.val[4]
            tp_pct == ret.val[5]
            rr == ret.val[6]
        IN  /\ stop_pct = IF side = "LONG" THEN PctMove(stop, entry, entry)
                          ELSE PctMove(entry, stop, entry)
            /\ tp_pct = IF side = "LONG" THEN PctMove(entry, tp, entry)
                        ELSE PctMove(tp, entry, entry)
            /\ Gt(stop_pct, Num(0)) =>
                  /\ IsNum(rr)
                  /\ Val(rr) = (Val(tp_pct) * 1000) \div Val(stop_pct)
            /\ (IsNum(stop_pct) /\ Val(stop_pct) <= 0) => rr = None

\* close 100, ATR 2, SHORT: stop_pct 3 %, tp_pct 5 %, rr 1.666
C15_Witness ==
    /\ LevelsReturned
    /\ side = "SHORT"
    /\ last["close"] = Num(1000) /\ last["atr14"] = Num(20)
    /\ ret.val[4] = Num(30000) /\ ret.val[5] = Num(50000) /\ ret.val[6] = Num(1666)

\* a negative stop_pct was computed and rr is None
C15_WitnessNoRr ==
    /\ LevelsReturned
    /\ Lt(ret.val[4], Num(0))
    /\ ret.val[6] = None


\* the orders in which n symbols can be processed
Orders(n) == {f \in [1..n -> 1..n] : \A i, j \in 1..n : f[i] = f[j] => i = j}

\* every symbol of the list was processed
LoopDone == pc = "exit" /\ Len(alone) = Len(symbols) /\ Len(symbols) > 0

\* what the iteration of each symbol did in this run
Outcomes == [i \in 1..Len(symbols) |->
                [rows |-> alone[i], raised |-> symbols[i] \in excepted]]

\* C16: the set of report rows does not depend on the order in which the
\* symbols are processed: what the iteration of a symbol does is given by the
\* supplier's answers for that symbol alone, and the loop run over any
\* permutation of the symbol list collects the same set of rows.
C16_OrderInsensitive ==
    /\ Processed =>
          LET it == iteration(script, cfg, LastSymbol, market)
          IN  /\ LastAlone = it.rows
              /\ (LastSymbol \in excepted) = it.raised
    /\ LoopDone =>
          LET outs == Outcomes
              rs == Range(rows)
          IN  /\ \A order \in Orders(Len(symbols)) :
                    Range(for_loop(outs, order, 1, <<>>)) = rs
              /\ Reported => Range(rows_sorted) = rs

\* three symbols: two gave a row each, the iteration of the third raised
C16_Witness ==
    /\ LoopDone /\ Reported
    /\ Len(symbols) = 3
    /\ alone[1] # <<>> /\ alone[2] # <<>> /\ alone[1] # alone[2]
    /\ excepted = {3}
    /\ Len(rows) = 2
    /\ for_loop(Outcomes, <<3, 1, 2>>, 1, <<>>) = rows
    /\ for_loop(Outcomes, <<2, 3, 1>>, 1, <<>>) # rows


\* the row has numeric entry, stop, target and risk/reward, and the risk/reward
\* is at least MIN_RR
LevelsDefined(r) ==
    /\ IsNum(r.entry) /\ IsNum(r.stop) /\ IsNum(r.tp) /\ IsNum(r.rr)
    /\ Val(r.rr) >= cfg.MIN_RR

\* the last bar of the symbol processed last, with its indicator columns
LastBar == iloc_last(compute_indicators(script, market.klines.df))

\* candles came for the symbol processed last and its classification ran
Classified ==
    /\ Processed
    /\ market.klines.kind = "ok"
    /\ market.klines.df.len >= min_len(script)

\* C17: every row of the main_spot.py report has defined entry, stop, target
\* and risk/reward with rr >= MIN_RR; a candidate whose ATR is NaN or not
\* positive, or whose rr is below MIN_RR, is never reported.
C17_SpotRowsHaveLevels ==
    script = "main_spot.py" =>
        /\ \A k \in 1..Len(rows) : LevelsDefined(rows[k])
        /\ \A k \in 1..Len(rows_sorted) : LevelsDefined(rows_sorted[k])
        /\ Classified =>
              /\ (isna(LastBar["atr14"]) \/ Val(LastBar["atr14"]) <= 0)
                    => LastAlone = <<>>
              /\ \A sd \in {"LONG", "SHORT"} :
                    LET lv == calc_levels(LastBar, sd)
                    IN  (lv.exc = "none" /\ Lt(lv.val[6], Num(cfg.MIN_RR)))
                           => \A k \in 1..Len(LastAlone) : LastAlone[k].side # sd

\* a report with a row, then a symbol whose ATR is zero that got no row
C17_Witness ==
    /\ script = "main_spot.py"
    /\ Reported
    /\ Len(rows_sorted) = 2
    /\ rows_sorted[1].rr = Num(1666)
    /\ market.klines.df = SFlat
    /\ LastAlone = <<>>

\* MIN_RR 1.667: the candidates' rr 1.666 is below it and nothing is reported
C17_WitnessBelowMinRr ==
    /\ script = "main_spot.py"
    /\ Reported
    /\ cfg.MIN_RR = 1667
    /\ market.klines.df = SLong
    /\ calc_levels(LastBar, "LONG").val[6] = Num(1666)
    /\ rows_sorted = <<>>


\* every collected and every reported row has the side the filter asks for
SideFilterRespected ==
    \A r \in Range(rows) \cup Range(rows_sorted) :
        /\ cfg.SIDE_FILTER = "LONG" => r.side = "LONG"
        /\ cfg.SIDE_FILTER = "SHORT" => r.side = "SHORT"

\* C18: main_spot.py respects the side filter for every setting of
\* ONLY_SIGNAL: with SIDE=LONG every reported row has side LONG, with
\* SIDE=SHORT every reported row has side SHORT.
C18_SideFilterRespected ==
    script = "main_spot.py" => SideFilterRespected

\* the part of C18 that the code keeps: with ONLY_SIGNAL set the filter holds
C18_SideFilterRespectedOnlySignal ==
    (script = "main_spot.py" /\ cfg.ONLY_SIGNAL) => SideFilterRespected

\* ONLY_SIGNAL set, SIDE=SHORT: a report with a SHORT row, after a symbol that
\* qualified LONG and was left out
C18_WitnessOnlySignal ==
    /\ script = "main_spot.py" /\ cfg.ONLY_SIGNAL /\ cfg.SIDE_FILTER = "SHORT"
    /\ Reported
    /\ Len(rows_sorted) = 1 /\ rows_sorted[1].side = "SHORT"
    /\ market.klines.df = SLong /\ LastAlone = <<>>


\* no two rows of the sequence carry the same symbol
DistinctSymbols(q) ==
    \A j, k \in 1..Len(q) : q[j].symbol = q[k].symbol => j = k

\* C19: given a symbol list without duplicates, each symbol appears in at most
\* one report row: an iteration yields at most one row (in main_spot.py with
\* SIDE=ALL never a LONG and a SHORT row for the same symbol), and no two
\* collected or reported rows share a symbol.
C19_OneRowPerSymbol ==
    DistinctSymbols([i \in 1..Len(symbols) |-> [symbol |-> symbols[i]]]) =>
        /\ \A i \in 1..Len(alone) : Len(alone[i]) <= 1
        /\ DistinctSymbols(rows)
        /\ DistinctSymbols(rows_sorted)

\* SIDE=ALL: a report with a LONG row and a SHORT row, of different symbols
C19_Witness ==
    /\ script = "main_spot.py" /\ cfg.SIDE_FILTER = "ALL" /\ cfg.ONLY_SIGNAL
    /\ Reported
    /\ Len(symbols) = 2
    /\ {rows_sorted[k].side : k \in 1..Len(rows_sorted)} = {"LONG", "SHORT"}
    /\ {rows_sorted[k].symbol : k \in 1..Len(rows_sorted)} = {1, 2}

\* the futures scripts: three symbols processed, three rows, one per symbol
C19_WitnessFutures ==
    /\ script \in Futures
    /\ Reported
    /\ Len(rows_sorted) = 3
    /\ {rows_sorted[k].symbol : k \in 1..3} = {1, 2, 3}


\* calc_levels returned levels for a positive entry and a positive ATR
PositiveLevels ==
    /\ LevelsReturned
    /\ Gt(last["close"], Num(0))
    /\ Gt(last["atr14"], Num(0))

\* C20: in main_spot.py the risk/reward of every candidate with positive entry
\* and positive ATR equals ATR_TP_MULT / ATR_STOP_MULT, whatever the price,
\* the ATR and the side (so that rr < MIN_RR decides alike for every
\* candidate with levels).
C20_ConstantRiskReward ==
    PositiveLevels => ret.val[6] = Num((ATR_TP_MULT * 1000) \div ATR_STOP_MULT)

\* what holds of C20: the quotient is the ratio of the multipliers when
\* neither ATR_STOP_MULT * atr nor ATR_TP_MULT * atr is rounded
C20_ConstantWithoutRounding ==
    (/\ PositiveLevels
     /\ (Val(last["atr14"]) * ATR_STOP_MULT) % 10 = 0
     /\ (Val(last["atr14"]) * ATR_TP_MULT) % 10 = 0)
        => ret.val[6] = Num((ATR_TP_MULT * 1000) \div ATR_STOP_MULT)

\* close 123.4, ATR 2: rr 1.666
C20_WitnessWithoutRounding ==
    /\ PositiveLevels
    /\ last["close"] = Num(1234) /\ last["atr14"] = Num(2)
    /\ ret.val[6] = Num(1666)

=============================================================================
